---- MODULE Spec2Model ----
(***************************************************************************)
(* Cluster-headache Monte Carlo simulation: the Patient attack pool and    *)
(* year scheduler, the attacks-per-day sampler, the group aggregation and  *)
(* the intensity transforms of src/Cluster_headache_app.py and             *)
(* src/simulation.py.                                                      *)
(*                                                                         *)
(* Units.  Reals of the program are carried as scaled integers:            *)
(*   pain intensities in tenths (max_intensity 7.3 is 73), raw intensity   *)
(*   draws in hundredths, attacks-per-day and active-day draws in tenths,  *)
(*   bout-duration draws in hundredths of a week, annual_bouts in tenths,  *)
(*   beta draws in tenths, durations in whole minutes.                     *)
(***************************************************************************)
EXTENDS Integers, Sequences, FiniteSets, TLC

VARIABLES
    \* ---- Patient (Cluster_headache_app.py 277-352)
    is_chronic, is_treated, active_days, annual_bouts, bout_durations,
    attack_pool, pool_index, attacks,
    \* ---- locals of generate_year_of_attacks / generate_day_attacks
    pc, bout, day, attacks_today, i, daily_attacks, total_attacks,
    returned, years, regens, last_read, days_done, durations, err,
    \* ---- generate_attacks_per_day (153-170)
    max_daily_ch, draw, rejected,
    \* ---- population and group aggregation (simulation.py 54-102, app 357-428)
    ch_groups, population, group_data, global_person_years, global_std_person_years,
    \* ---- configuration and runs (simulation.py 8-61, app main 798-856)
    config, total_ch_sufferers, n_simulated, runs, created, path,
    \* ---- what get_simulated_patients_info returned (simulation.py 44-52)
    total_simulated, group_info,
    \* ---- the combined bout-frequency distribution (app 19-61)
    data, combined_dist, bouts_per_year,
    \* ---- transform_intensity / calculate_adjusted_pain_units (app 430-491)
    method, power, max_value, fit_raises, time_amounts, result, adjusted, diagnostics

patientVars == <<is_chronic, is_treated, active_days, annual_bouts, bout_durations,
                 attack_pool, pool_index, attacks, bout, day, i, daily_attacks,
                 total_attacks, returned, years, regens, last_read, days_done,
                 durations>>
samplerVars == <<max_daily_ch, draw, rejected, attacks_today>>
runVars == <<config, total_ch_sufferers, n_simulated, runs, created, path,
             total_simulated, group_info>>
distVars == <<data, combined_dist, bouts_per_year>>
simVars == <<ch_groups, population, group_data, global_person_years,
             global_std_person_years, runVars, distVars>>
trVars == <<method, power, max_value, fit_raises, time_amounts, result, adjusted,
            diagnostics>>
vars == <<patientVars, samplerVars, simVars, trVars, pc, err>>

----------------------------------------------------------------------------
(* Bounds of the model *)

MaxActiveDays == 2      \* largest integer part of an active-day draw
MaxDaily == 9           \* largest attacks-per-day draw (whole attacks)
MaxYears == 2           \* calls of generate_year_of_attacks on one patient
MaxCap == 3             \* largest finite cap handed to the sampler
MaxRejected == 2        \* rejected draws counted in one sampler call
MaxPerGroup == 2        \* simulated patients in one group
MaxPower == 2           \* largest power handed to the transforms
MaxRuns == 2            \* calls of Simulation.run on one Simulation object
MaxPatients == 2        \* patients simulated in any order

----------------------------------------------------------------------------
(* Arithmetic helpers *)

Min(a, b) == IF a <= b THEN a ELSE b
Max(a, b) == IF a >= b THEN a ELSE b
Abs(a) == IF a >= 0 THEN a ELSE -a

\* numpy.clip(x, lo, hi)
Clip(x, lo, hi) == Max(lo, Min(x, hi))

\* round / numpy.round of the non-negative rational n/d: nearest integer, ties
\* to the even neighbour.
RoundHalfEven(n, d) ==
    LET q == n \div d
        r == n % d
    IN  IF 2 * r < d THEN q
        ELSE IF 2 * r > d THEN q + 1
        ELSE IF q % 2 = 0 THEN q ELSE q + 1

RECURSIVE SumSeq(_)
SumSeq(s) == IF s = <<>> THEN 0 ELSE Head(s) + SumSeq(Tail(s))

RECURSIVE Pow2Below(_, _, _)
\* largest power of two 2^e >= p with 2^e * den <= num
Pow2Below(p, num, den) ==
    IF 2 * p * den <= num THEN Pow2Below(2 * p, num, den) ELSE p

\* ceil of x given in tenths
CeilTenths(x10) == (x10 + 9) \div 10

----------------------------------------------------------------------------
(* generate_attacks_per_day *)

\* np.inf, the default of max_daily_ch
Inf == [kind |-> "inf", v |-> 0]
Finite(n) == [kind |-> "finite", v |-> n]

\* attacks <= max_daily_ch, attacks in tenths, a finite cap in whole attacks
WithinCapFlipped(d10, cap) == cap.kind = "finite" /\ d10 > 10 * cap.v
WithinCap(d10, cap) == cap.kind = "inf" \/ d10 <= 10 * cap.v

\* max(1, round(attacks))
AttacksResultNoFloor(d10) == RoundHalfEven(d10, 10)
AttacksResult(d10) == Max(1, RoundHalfEven(d10, 10))

\* lognormal draws (tenths of an attack); a lognormal draw is positive
SamplerDraws == {1, 4, 5, 14, 15, 25, 26, 35, 10 * MaxCap + 1, 10 * MaxDaily}
\* the draws taken while a year is simulated
DayDraws == {4, 25, 10 * MaxDaily}

----------------------------------------------------------------------------
(* Attack generation *)

AttacksPerDayAssumed == 8

\* One row of draws per pool position: the mixture choice and its three
\* component draws (generate_max_pain_intensity), the base duration and the
\* beta draw (generate_attack_duration).
DrawRows == <<
    [choice |-> 0, mild |-> 423,  modsev |-> 750,  expon |-> 70,   base |-> 55,   beta |-> 7],
    [choice |-> 1, mild |-> 100,  modsev |-> 1234, expon |-> 10,   base |-> 2000, beta |-> 9],
    [choice |-> 2, mild |-> 500,  modsev |-> 815,  expon |-> 950,  base |-> 3,    beta |-> 1],
    [choice |-> 2, mild |-> 1100, modsev |-> 100,  expon |-> 35,   base |-> 140,  beta |-> 10],
    [choice |-> 0, mild |-> 1100, modsev |-> 645,  expon |-> 0,    base |-> 262,  beta |-> 5],
    [choice |-> 1, mild |-> 345,  modsev |-> 645,  expon |-> 1200, base |-> 21,   beta |-> 3]
>>
NRows == Len(DrawRows)
\* starting offsets into DrawRows a batch may take
Seeds == {0, 3}
RowAt(seed, k) == DrawRows[((seed + k) % NRows) + 1]

\* generate_max_pain_intensity: np.where on the choice, clip to [1, 10],
\* round to one decimal.  Result in tenths.
MaxPainIntensityNoClip(row) ==
    LET raw == IF row.choice = 0 THEN row.mild
               ELSE IF row.choice = 1 THEN row.modsev
               ELSE 1000 - row.expon
    IN  IF raw >= 0 THEN RoundHalfEven(raw, 10) ELSE -RoundHalfEven(-raw, 10)
MaxPainIntensity(row) ==
    LET raw == IF row.choice = 0 THEN row.mild
               ELSE IF row.choice = 1 THEN row.modsev
               ELSE 1000 - row.expon
    IN  RoundHalfEven(Clip(raw, 100, 1000), 10)

\* adjusted_durations before rounding, as a mixed number <<whole, num, den>>.
\* intensity_factor = 0.1064 * I + 0.5797 = (532 * I10 + 28985) / 50000;
\* treated: * beta * (1 - 0.3 * (I - 1) / 9) = * (beta10 * (310 - I10)) / 3000.
AdjustedDuration(chronic, treated, I10, row) ==
    LET x  == row.base * (532 * I10 + 28985)
        q1 == x \div 50000
        r1 == x % 50000
    IN  IF ~treated THEN <<q1, r1, 50000>>
        ELSE LET m   == row.beta * (310 - I10)
                 n   == 3000
                 q2  == (q1 * m) \div n
                 r2  == (q1 * m) % n
                 num == r2 * 50000 + r1 * m
                 den == 50000 * n
             IN  <<q2 + (num \div den), num % den, den>>

\* np.clip(np.round(adjusted_durations).astype(int), 15, 360)
AttackDurationNoClip(chronic, treated, I10, row) ==
    LET a == AdjustedDuration(chronic, treated, I10, row)
    IN  a[1] + RoundHalfEven(a[2], a[3])
AttackDuration(chronic, treated, I10, row) ==
    LET a == AdjustedDuration(chronic, treated, I10, row)
    IN  Clip(a[1] + RoundHalfEven(a[2], a[3]), 15, 360)

\* np.round(0.7 * total_durations).astype(int) in IEEE doubles.  0.7 is stored
\* as 0.7 - 0.4 * 2^-53, so the product of an exact tie 7d/10 = q + 1/2 lands
\* on the tie only when the error 0.4 * d * 2^-53 is within half an ulp of the
\* product, 2^(e-53) with 2^e <= 0.7 d < 2^(e+1); otherwise it lands just below
\* the tie and rounds down.  Off a tie the nearest integer is unaffected.
MaxIntensityDurationTrunc(d) == (7 * d) \div 10
MaxIntensityDuration(d) ==
    LET n == 7 * d
        q == n \div 10
    IN  IF n % 10 # 5 THEN RoundHalfEven(n, 10)
        ELSE IF 2 * d <= 5 * Pow2Below(1, n, 10)
             THEN (IF q % 2 = 0 THEN q ELSE q + 1)
             ELSE q

\* Attack(total_durations[i], max_intensities[i], max_intensity_durations[i])
Attack(chronic, treated, row) ==
    LET I10 == MaxPainIntensity(row)
        td  == AttackDuration(chronic, treated, I10, row)
    IN  [total_duration |-> td, max_intensity |-> I10,
         max_intensity_duration |-> MaxIntensityDuration(td)]

----------------------------------------------------------------------------
(* Patient profile *)

\* generate_chronic_active_days: min(int(draw), 365), the draw in tenths
GenerateChronicActiveDaysRounded(d10) == Min(RoundHalfEven(d10, 10), 365)
GenerateChronicActiveDays(d10) == Min(d10 \div 10, 365)

\* generate_bout_durations: ceil(annual_bouts) draws (hundredths of a week);
\* the last one is scaled by the fractional part of annual_bouts when there is
\* one; each becomes max(1, int(duration * 7)) days.
GenerateBoutDurationsAllScaled(ab10, durs) ==
    [k \in 1 .. CeilTenths(ab10) |->
        IF ab10 % 10 # 0
        THEN Max(1, (durs[k] * (ab10 % 10) * 7) \div 1000)
        ELSE Max(1, (durs[k] * 7) \div 100)]
GenerateBoutDurations(ab10, durs) ==
    LET n    == CeilTenths(ab10)
        frac == ab10 % 10
    IN  [k \in 1 .. n |->
            IF k = n /\ frac # 0
            THEN Max(1, (durs[k] * frac * 7) \div 1000)
            ELSE Max(1, (durs[k] * 7) \div 100)]

\* draws the profile is built from
ActiveDayDraws == {10 * k + 5 : k \in 0 .. MaxActiveDays}
BoutDraws == {5, 10, 15}
WeekDraws == {3, 30}

\* pre_generate_attack_pool: the batch of max_attacks attacks
PoolSizeShort(chronic, adays, bdurs) ==
    IF chronic THEN (adays - 1) * AttacksPerDayAssumed
    ELSE (SumSeq(bdurs) - 1) * AttacksPerDayAssumed
PoolSize(chronic, adays, bdurs) ==
    IF chronic THEN adays * AttacksPerDayAssumed
    ELSE SumSeq(bdurs) * AttacksPerDayAssumed

PreGenerateAttackPool(chronic, treated, adays, bdurs, seed) ==
    [k \in 1 .. PoolSize(chronic, adays, bdurs) |->
        Attack(chronic, treated, RowAt(seed, k))]

\* if self.pool_index >= len(self.attack_pool)
NeedsRefillOffByOne(idx, len) == idx > len
NeedsRefillEarly(idx, len) == idx >= len - 1
NeedsRefill(idx, len) == idx >= len

\* the cap generate_day_attacks hands to generate_attacks_per_day: none, so
\* the default
DayCap == Inf

----------------------------------------------------------------------------
(* Patient: construction and generate_year_of_attacks *)

\* nothing aggregated, nothing transformed
NoCurve == <<>>
NoConfig == [annual_prevalence_per_100k |-> 53, prop_chronic |-> 20, prop_treated |-> 48,
             prop_episodic |-> 80, prop_untreated |-> 52,
             percent_of_patients_to_simulate |-> 2]
RunIdle ==
    /\ config = NoConfig
    /\ total_ch_sufferers = 0
    /\ n_simulated = <<>>
    /\ runs = 0
    /\ created = <<>>
    /\ total_simulated = 0
    /\ group_info = <<>>
    /\ path = "none"
DistIdle ==
    /\ data = <<>>
    /\ combined_dist = <<>>
    /\ bouts_per_year = <<>>
SimIdle ==
    /\ RunIdle
    /\ DistIdle
    /\ ch_groups = <<>>
    /\ population = <<>>
    /\ group_data = <<>>
    /\ global_person_years = <<>>
    /\ global_std_person_years = <<>>
TransformIdle ==
    /\ method = "linear"
    /\ power = 2
    /\ max_value = 100
    /\ fit_raises = FALSE
    /\ time_amounts = NoCurve
    /\ result = NoCurve
    /\ adjusted = NoCurve
    /\ diagnostics = <<>>

SamplerIdle ==
    /\ max_daily_ch = Inf
    /\ draw = 0
    /\ rejected = 0
    /\ attacks_today = 0

\* Patient.__init__: generate_profile, then pre_generate_attack_pool
InitPatient ==
    /\ \E c \in BOOLEAN, t \in BOOLEAN, ad \in ActiveDayDraws, ab \in BoutDraws, seed \in Seeds :
         \E durs \in [1 .. CeilTenths(ab) -> WeekDraws] :
            /\ is_chronic = c
            /\ is_treated = t
            /\ active_days = IF c THEN GenerateChronicActiveDays(ad) ELSE 0
            /\ annual_bouts = IF c THEN 0 ELSE ab
            /\ bout_durations = IF c THEN <<>> ELSE GenerateBoutDurations(ab, durs)
            /\ durations = <<>>
            /\ attack_pool =
                 PreGenerateAttackPool(c, t,
                     IF c THEN GenerateChronicActiveDays(ad) ELSE 0,
                     IF c THEN <<>> ELSE GenerateBoutDurations(ab, durs), seed)
    /\ pool_index = 0
    /\ attacks = <<>>
    /\ pc = "idle"
    /\ bout = 0
    /\ day = 0
    /\ i = 0
    /\ daily_attacks = 0
    /\ total_attacks = 0
    /\ returned = 0
    /\ years = 0
    /\ regens = 0
    /\ last_read = <<>>
    /\ days_done = 0
    /\ err = "none"
    /\ SamplerIdle
    /\ SimIdle
    /\ TransformIdle

\* number of days of the range the year loop is in
RangeDaysOneShort ==
    IF is_chronic THEN Max(0, Min(365, active_days) - 1)
    ELSE IF bout >= 1 /\ bout <= Len(bout_durations) THEN bout_durations[bout] - 1 ELSE 0
RangeDays ==
    IF is_chronic THEN Min(365, active_days)
    ELSE IF bout >= 1 /\ bout <= Len(bout_durations) THEN bout_durations[bout] ELSE 0

\* generate_year_of_attacks, entry: self.attacks = []; total_attacks = 0
GenerateYearOfAttacks ==
    /\ pc = "idle"
    /\ years < MaxYears
    /\ attacks' = <<>>
    /\ total_attacks' = 0
    /\ bout' = IF is_chronic THEN 0 ELSE 1
    /\ day' = 0
    /\ regens' = 0
    /\ days_done' = 0
    /\ pc' = "year_loop"
    /\ UNCHANGED <<is_chronic, is_treated, active_days, annual_bouts, bout_durations, durations,
                   attack_pool, pool_index, i, daily_attacks, returned, years,
                   last_read, err, samplerVars>>
    /\ UNCHANGED <<simVars, trVars>>

\* generate_day_attacks, entry: daily_attacks = 0 and the sampler call, whose
\* rejection loop ends with the first draw within the cap
GenerateDayAttacks ==
    /\ pc = "year_loop"
    /\ day < RangeDays
    /\ \E d \in DayDraws :
          /\ WithinCap(d, DayCap)
          /\ draw' = d
          /\ attacks_today' = AttacksResult(d)
    /\ max_daily_ch' = DayCap
    /\ daily_attacks' = 0
    /\ i' = 0
    /\ pc' = "day_loop"
    /\ UNCHANGED <<is_chronic, is_treated, active_days, annual_bouts, bout_durations, durations,
                   attack_pool, pool_index, attacks, bout, day, total_attacks,
                   returned, years, regens, last_read, err, rejected, days_done>>
    /\ UNCHANGED <<simVars, trVars>>

\* one iteration of "for _ in range(attacks_today)": refill when the cursor
\* is at the end, read attack_pool[pool_index], append, advance
AppendAttack ==
    /\ pc = "day_loop"
    /\ i < attacks_today
    /\ \E seed \in Seeds :
         LET need == NeedsRefill(pool_index, Len(attack_pool))
             pool == IF need
                     THEN PreGenerateAttackPool(is_chronic, is_treated, active_days,
                                                bout_durations, seed)
                     ELSE attack_pool
             idx  == IF need THEN 0 ELSE pool_index
         IN  /\ need \/ seed = 0
             /\ attack_pool' = pool
             /\ regens' = IF need THEN regens + 1 ELSE regens
             /\ last_read' = <<idx, Len(pool)>>
             /\ IF idx < Len(pool)
                THEN /\ attacks' = Append(attacks, pool[idx + 1])
                     /\ pool_index' = idx + 1
                     /\ daily_attacks' = daily_attacks + 1
                     /\ i' = i + 1
                     /\ UNCHANGED <<pc, err>>
                ELSE /\ err' = "IndexError"
                     /\ pc' = "failed"
                     /\ pool_index' = idx
                     /\ UNCHANGED <<attacks, daily_attacks, i>>
    /\ UNCHANGED <<is_chronic, is_treated, active_days, annual_bouts, bout_durations, durations,
                   bout, day, total_attacks, returned, years, samplerVars, days_done>>
    /\ UNCHANGED <<simVars, trVars>>

\* return daily_attacks; total_attacks += ...; next day of the range
DayReturn ==
    /\ pc = "day_loop"
    /\ i = attacks_today
    /\ total_attacks' = total_attacks + daily_attacks
    /\ day' = day + 1
    /\ days_done' = days_done + 1
    /\ pc' = "year_loop"
    /\ UNCHANGED <<is_chronic, is_treated, active_days, annual_bouts, bout_durations, durations,
                   attack_pool, pool_index, attacks, bout, i, daily_attacks,
                   returned, years, regens, last_read, err, samplerVars>>
    /\ UNCHANGED <<simVars, trVars>>

\* for duration in self.bout_durations: the next bout
NextBout ==
    /\ pc = "year_loop"
    /\ ~is_chronic
    /\ day = RangeDays
    /\ bout < Len(bout_durations)
    /\ bout' = bout + 1
    /\ day' = 0
    /\ UNCHANGED <<is_chronic, is_treated, active_days, annual_bouts, bout_durations, durations,
                   attack_pool, pool_index, attacks, i, daily_attacks, total_attacks,
                   returned, years, regens, last_read, err, pc, samplerVars, days_done>>
    /\ UNCHANGED <<simVars, trVars>>

\* return total_attacks
YearReturn ==
    /\ pc = "year_loop"
    /\ day = RangeDays
    /\ is_chronic \/ bout >= Len(bout_durations)
    /\ returned' = total_attacks
    /\ years' = years + 1
    /\ pc' = "idle"
    /\ UNCHANGED <<is_chronic, is_treated, active_days, annual_bouts, bout_durations, durations,
                   attack_pool, pool_index, attacks, bout, day, i, daily_attacks,
                   total_attacks, regens, last_read, err, samplerVars, days_done>>
    /\ UNCHANGED <<simVars, trVars>>

NextPatient ==
    \/ GenerateYearOfAttacks
    \/ GenerateDayAttacks
    \/ AppendAttack
    \/ DayReturn
    \/ NextBout
    \/ YearReturn

Spec == InitPatient /\ [][NextPatient]_vars

----------------------------------------------------------------------------
(* generate_attacks_per_day called on its own, with any cap *)

Caps == {Inf} \cup {Finite(n) : n \in 0 .. MaxCap}

InitSampler ==
    /\ is_chronic \in BOOLEAN
    /\ is_treated \in BOOLEAN
    /\ max_daily_ch \in Caps
    /\ pc = "apd_loop"
    /\ draw = 0
    /\ rejected = 0
    /\ attacks_today = 0
    /\ active_days = 0
    /\ annual_bouts = 0
    /\ bout_durations = <<>>
    /\ attack_pool = <<>>
    /\ pool_index = 0
    /\ attacks = <<>>
    /\ bout = 0
    /\ day = 0
    /\ i = 0
    /\ daily_attacks = 0
    /\ total_attacks = 0
    /\ returned = 0
    /\ years = 0
    /\ regens = 0
    /\ last_read = <<>>
    /\ days_done = 0
    /\ durations = <<>>
    /\ err = "none"
    /\ SimIdle
    /\ TransformIdle

\* while True: attacks = lognorm.rvs(...); the draw exceeds the cap: again
SampleRejected ==
    /\ pc = "apd_loop"
    /\ \E d \in SamplerDraws :
          /\ ~WithinCap(d, max_daily_ch)
          /\ draw' = d
    /\ rejected' = Min(rejected + 1, MaxRejected)
    /\ UNCHANGED <<patientVars, max_daily_ch, attacks_today, pc, err>>
    /\ UNCHANGED <<simVars, trVars>>

\* if attacks <= max_daily_ch: break; return max(1, round(attacks))
SampleAccepted ==
    /\ pc = "apd_loop"
    /\ \E d \in SamplerDraws :
          /\ WithinCap(d, max_daily_ch)
          /\ draw' = d
          /\ attacks_today' = AttacksResult(d)
    /\ pc' = "apd_return"
    /\ UNCHANGED <<patientVars, max_daily_ch, rejected, err>>
    /\ UNCHANGED <<simVars, trVars>>

NextSampler ==
    \/ SampleRejected
    \/ SampleAccepted

SamplerSpec == InitSampler /\ [][NextSampler]_vars

\* Both entry points.  The code is sequential, so every step of a year is
\* taken as soon as it is reached; the one loop that can spin is the
\* sampler's, and the fairness stated is that a draw within the cap is
\* eventually made whenever one exists.
FairSpec ==
    /\ InitPatient \/ InitSampler
    /\ [][NextPatient \/ NextSampler]_vars
    /\ WF_vars(SampleAccepted)

----------------------------------------------------------------------------
(* Claims about the pool, the year and the sampler *)

InDay == pc = "day_loop"

\* C1: a simulated year never fails and never truncates: no read of the pool
\* fails, every attack counted for a day is in the realized list, and a day
\* ends only after exactly attacks_today attacks (its return value) were
\* appended, however often the pool had to be regenerated.
C1_YearNeverFailsNorTruncates ==
    /\ err = "none"
    /\ pc # "failed"
    /\ InDay => /\ daily_attacks = i
                /\ i <= attacks_today
                /\ Len(attacks) = total_attacks + daily_attacks
    /\ (InDay /\ ENABLED DayReturn) => daily_attacks = attacks_today
    /\ pc \in {"year_loop", "idle"} => Len(attacks) = total_attacks

\* a day has ended in a year whose realized attacks outnumber the pool, after
\* a regeneration
C1_Witness ==
    /\ pc = "year_loop"
    /\ day >= 1
    /\ regens >= 1
    /\ Len(attacks) > Len(attack_pool)
    /\ Len(attacks) = total_attacks

\* C2: the cursor stays within 0 .. len(attack_pool), and every read
\* attack_pool[pool_index] is made at an index below the pool's length.
C2_CursorWithinPool ==
    /\ 0 <= pool_index
    /\ pool_index <= Len(attack_pool)
    /\ last_read # <<>> => (0 <= last_read[1] /\ last_read[1] < last_read[2])

\* the first read after a replenishment of the smallest pool a simulated day
\* can meet (one active day)
C2_Witness ==
    /\ regens >= 1
    /\ last_read = <<0, AttacksPerDayAssumed>>
    /\ pool_index = 1

\* C4: every attack in the pool (and so every realized attack) has
\* 15 <= total_duration <= 360, 1 <= max_intensity <= 10 and a
\* max_intensity_duration that is 0.7 * total_duration rounded to a nearest
\* integer.
AttackWellFormed(a) ==
    /\ 15 <= a.total_duration
    /\ a.total_duration <= 360
    /\ 10 <= a.max_intensity
    /\ a.max_intensity <= 100
    /\ Abs(10 * a.max_intensity_duration - 7 * a.total_duration) <= 5

C4_AttacksClamped ==
    /\ \A k \in 1 .. Len(attack_pool) : AttackWellFormed(attack_pool[k])
    /\ \A k \in 1 .. Len(attacks) : AttackWellFormed(attacks[k])

\* a regenerated pool that holds attacks clamped at each of the four ends
C4_Witness ==
    /\ regens >= 1
    /\ \E k \in 1 .. Len(attack_pool) : attack_pool[k].total_duration = 15
    /\ \E k \in 1 .. Len(attack_pool) : attack_pool[k].total_duration = 360
    /\ \E k \in 1 .. Len(attack_pool) : attack_pool[k].max_intensity = 10
    /\ \E k \in 1 .. Len(attack_pool) : attack_pool[k].max_intensity = 100

\* C5: every sampler call made while a year is simulated passes a finite cap.
C5_FiniteCapPassed ==
    InDay => max_daily_ch.kind = "finite"

\* C6: the sampler returns an integer >= 1, the rounding to nearest of a draw
\* within the cap; a draw above the cap is never the one returned, and an
\* accepted draw below 0.5 gives 1.
C6_SamplerResult ==
    /\ (pc = "apd_loop" /\ rejected > 0) =>
          (max_daily_ch.kind = "finite" /\ draw > 10 * max_daily_ch.v)
    /\ pc = "apd_return" =>
          /\ attacks_today >= 1
          /\ max_daily_ch.kind = "finite" => draw <= 10 * max_daily_ch.v
          /\ draw >= 5 => Abs(10 * attacks_today - draw) <= 5
          /\ draw < 5 => attacks_today = 1

\* a draw below 0.5 accepted after a rejected one
C6_Witness ==
    /\ pc = "apd_return"
    /\ rejected >= 1
    /\ draw < 5
    /\ attacks_today = 1

\* C7: a sampler call whose cap admits some draw returns; a call of
\* generate_year_of_attacks returns after finitely many days, draws and
\* regenerations (every step of the call lowers a well-founded measure of the
\* work left, and a step is possible until the call returns); and the
\* regenerations of a call never exceed its attack count divided by the pool
\* size, rounded up.
RegensBounded ==
    pc \in {"year_loop", "day_loop", "idle"} =>
        IF Len(attack_pool) = 0 THEN regens = 0
        ELSE regens * Len(attack_pool) <= Len(attacks) + Len(attack_pool) - 1

\* work left in a call: bouts, then days of the range, then attacks of the day
WorkLeft ==
    IF pc = "idle" THEN <<0, 0, 0, 0>>
    ELSE <<1,
           Len(bout_durations) - bout,
           2 * (RangeDays - day) - (IF pc = "day_loop" THEN 1 ELSE 0),
           IF pc = "day_loop" THEN attacks_today - i ELSE 0>>

LexLess(a, b) ==
    \E k \in 1 .. 4 : a[k] < b[k] /\ \A j \in 1 .. (k - 1) : a[j] = b[j]

InCall == pc \in {"year_loop", "day_loop"}

\* some step of the call can be taken (AppendAttack by its guard: a seed for
\* the refill always exists)
StepPossible ==
    \/ ENABLED GenerateDayAttacks
    \/ ENABLED DayReturn
    \/ ENABLED NextBout
    \/ ENABLED YearReturn
    \/ (pc = "day_loop" /\ i < attacks_today)

CallProgresses ==
    InCall => /\ StepPossible
              /\ \A k \in 1 .. 4 : WorkLeft[k] >= 0

C7_Terminates ==
    /\ (pc = "apd_loop" /\ \E d \in SamplerDraws : WithinCap(d, max_daily_ch))
          ~> (pc = "apd_return")
    /\ [][(InCall /\ NextPatient) => LexLess(WorkLeft', WorkLeft)]_vars
    /\ [](CallProgresses /\ RegensBounded)

\* a second call that started on an exhausted pool has returned with as many
\* regenerations as the bound allows
C7_Witness ==
    /\ pc = "idle"
    /\ years = 2
    /\ regens >= 1
    /\ returned = Len(attacks)
    /\ regens * Len(attack_pool) >= Len(attacks)

----------------------------------------------------------------------------
(* Population and group aggregation *)

\* the four groups, in the order both aggregation paths take them
Groups == <<"Episodic Treated", "Episodic Untreated", "Chronic Treated",
            "Chronic Untreated">>

\* 'Chronic' in group, 'Treated' in group
GroupIsChronic(k) == k \in {3, 4}
GroupIsTreated(k) == k \in {1, 3}

\* the lambdas of the group list
Condition(k, p) ==
    /\ p.is_chronic = GroupIsChronic(k)
    /\ p.is_treated = GroupIsTreated(k)

\* round(i, 1) for i in np.arange(0, 10.1, 0.1): 101 keys, in tenths
Buckets == 0 .. 100

RECURSIVE Concat(_)
Concat(ss) == IF ss = <<>> THEN <<>> ELSE Head(ss) \o Concat(Tail(ss))

\* generate_population: n[k] new patients per group, in group order
GeneratePopulation(n) ==
    Concat([k \in 1 .. 4 |->
        [j \in 1 .. n[k] |->
            [is_chronic |-> GroupIsChronic(k), is_treated |-> GroupIsTreated(k),
             attacks |-> <<>>]]])

\* worldwide patients represented by one simulated patient
\* (percent_of_patients_to_simulate = 0.02)
WorldPerSimulated == 5000

\* what generate_year_of_attacks can leave in patient.attacks: the first
\* attacks of a freshly generated pool
YearLengths == {1, 7}
Year(chronic, treated, len) ==
    SubSeq(PreGenerateAttackPool(chronic, treated, 1, <<1>>, 0), 1, len)

\* Patient.calculate_intensity_minutes: intensity -> minutes at that intensity
RECURSIVE MinutesAt(_, _)
MinutesAt(as, b) ==
    IF as = <<>> THEN 0
    ELSE (IF Head(as).max_intensity = b THEN Head(as).max_intensity_duration ELSE 0)
         + MinutesAt(Tail(as), b)

CalculateIntensityMinutes(as) ==
    [b \in {as[k].max_intensity : k \in 1 .. Len(as)} |-> MinutesAt(as, b)]

\* total_intensity_minutes.get(b, 0) after the loop over the group's patients,
\* ds the patients' mappings in order
RECURSIVE TotalAtOverwritten(_, _)
TotalAtOverwritten(ds, b) ==
    IF ds = <<>> THEN 0
    ELSE IF b \in DOMAIN ds[Len(ds)] THEN ds[Len(ds)][b]
    ELSE TotalAtOverwritten(SubSeq(ds, 1, Len(ds) - 1), b)
RECURSIVE TotalAt(_, _)
TotalAt(ds, b) ==
    IF ds = <<>> THEN 0
    ELSE (IF b \in DOMAIN Head(ds) THEN Head(ds)[b] ELSE 0) + TotalAt(Tail(ds), b)

\* intensity_minutes_list[b]: one entry per patient whose mapping has key b
RECURSIVE ListAt(_, _)
ListAt(ds, b) ==
    IF ds = <<>> THEN <<>>
    ELSE (IF b \in DOMAIN Head(ds) THEN <<Head(ds)[b]>> ELSE <<>>) \o ListAt(Tail(ds), b)

RECURSIVE SumSquares(_)
SumSquares(xs) == IF xs = <<>> THEN 0 ELSE Head(xs) * Head(xs) + SumSquares(Tail(xs))

\* np.std(xs) squared, as the rational <<num, den>>; 0 for an empty list
StdSquared(xs) ==
    IF xs = <<>> THEN <<0, 1>>
    ELSE <<Len(xs) * SumSquares(xs) - SumSeq(xs) * SumSeq(xs), Len(xs) * Len(xs)>>

\* the patients' mappings, in order
IntensityMinutes(ps) ==
    [k \in 1 .. Len(ps) |-> CalculateIntensityMinutes(ps[k].attacks)]

\* the keys a group's patients bring that the bucket table does not hold
MissingKeys(ds) ==
    {b \in UNION {DOMAIN ds[k] : k \in 1 .. Len(ds)} : b \notin Buckets}

\* the three curves of a group, the average as <<num, den>>
GroupCurves(name, ds, n) ==
    LET keys  == UNION {DOMAIN ds[k] : k \in 1 .. Len(ds)}
        total == [b \in Buckets |-> IF b \in keys THEN TotalAt(ds, b) ELSE 0]
    IN  [err |-> "none",
         name |-> name,
         average |-> [b \in Buckets |-> <<total[b], n>>],
         std_sq |-> [b \in Buckets |->
                       IF b \in keys THEN StdSquared(ListAt(ds, b)) ELSE <<0, 1>>],
         total |-> total,
         n_patients |-> n]

\* One group of the aggregation loop: the error it raises, or its tuple
\* (group_name, average, std, total, n_patients).
AggregateGroup(name, ps, n) ==
    IF MissingKeys(IntensityMinutes(ps)) # {} THEN [err |-> "KeyError"]
    ELSE IF n = 0 THEN [err |-> "ZeroDivisionError"]
    ELSE GroupCurves(name, IntensityMinutes(ps), n)

\* (a * global_total) / (60 * 24 * 365) for a in the average curve, and the
\* std curve with the same scale
MinutesPerYear == 60 * 24 * 365
PersonYears(r, global_total) ==
    [b \in Buckets |-> <<r.average[b][1] * global_total, r.average[b][2] * MinutesPerYear>>]
StdPersonYears(r, global_total) ==
    [b \in Buckets |-> [std_sq |-> r.std_sq[b], scale |-> <<global_total, MinutesPerYear>>]]

GroupPatients(pop, k) == SelectSeq(pop, LAMBDA p : Condition(k, p))

\* the first group whose aggregation raises, 0 when none does
FirstFailing(rs) ==
    IF \E k \in 1 .. 4 : rs[k].err # "none"
    THEN CHOOSE k \in 1 .. 4 : rs[k].err # "none" /\ \A j \in 1 .. (k - 1) : rs[j].err = "none"
    ELSE 0

InitAggregation ==
    /\ \E n \in [1 .. 4 -> 0 .. MaxPerGroup] :
          /\ population = GeneratePopulation(n)
          /\ ch_groups = [k \in 1 .. 4 |-> n[k] * WorldPerSimulated]
    /\ RunIdle
    /\ DistIdle
    /\ group_data = <<>>
    /\ global_person_years = <<>>
    /\ global_std_person_years = <<>>
    /\ pc = "populated"
    /\ err = "none"
    /\ is_chronic = FALSE
    /\ is_treated = FALSE
    /\ active_days = 0
    /\ annual_bouts = 0
    /\ bout_durations = <<>>
    /\ attack_pool = <<>>
    /\ pool_index = 0
    /\ attacks = <<>>
    /\ bout = 0
    /\ day = 0
    /\ i = 0
    /\ daily_attacks = 0
    /\ total_attacks = 0
    /\ returned = 0
    /\ years = 0
    /\ regens = 0
    /\ last_read = <<>>
    /\ days_done = 0
    /\ durations = <<>>
    /\ SamplerIdle
    /\ TransformIdle

\* generate_year_of_attacks on every patient of pop, lens the years' lengths
WithYears(pop, lens) ==
    [k \in 1 .. Len(pop) |->
        [pop[k] EXCEPT !.attacks = Year(pop[k].is_chronic, pop[k].is_treated, lens[k])]]

\* the aggregation loop over the four groups, n the patient counts it divides by
AggregateAll(pop, n) ==
    [k \in 1 .. 4 |-> AggregateGroup(Groups[k], GroupPatients(pop, k), n[k])]

\* Simulation.simulate_year: generate_year_of_attacks on every patient
SimulateYear ==
    /\ pc = "populated"
    /\ \E lens \in [1 .. Len(population) -> YearLengths] :
          population' = WithYears(population, lens)
    /\ pc' = "simulated"
    /\ UNCHANGED <<ch_groups, group_data, global_person_years, global_std_person_years,
                   runVars, distVars, patientVars, samplerVars, trVars, err>>

\* Simulation.calculate_results: the four groups in order, each divided by
\* len(group_patients); the tuples and the person-years are stored only when
\* no group raised
CalculateResults ==
    /\ pc = "simulated"
    /\ \E rs \in {AggregateAll(population,
                               [k \in 1 .. 4 |-> Len(GroupPatients(population, k))])} :
          IF FirstFailing(rs) # 0
          THEN /\ err' = rs[FirstFailing(rs)].err
               /\ pc' = "failed"
               /\ UNCHANGED <<group_data, global_person_years, global_std_person_years>>
          ELSE /\ group_data' = rs
               /\ global_person_years' =
                     [k \in 1 .. 4 |-> PersonYears(rs[k], ch_groups[k])]
               /\ global_std_person_years' =
                     [k \in 1 .. 4 |-> StdPersonYears(rs[k], ch_groups[k])]
               /\ pc' = "aggregated"
               /\ err' = "none"
    /\ UNCHANGED <<ch_groups, population, runVars, distVars, patientVars, samplerVars, trVars>>

\* calculate_group_data(population, groups_simulated): each patient of a
\* group has its year generated, then the group is aggregated with the
\* n_patients the caller computed for it (int(ch_groups[group] * fraction));
\* a group that raises ends the call, the later groups' patients untouched
CalculateGroupData ==
    /\ pc = "populated"
    /\ \E lens \in [1 .. Len(population) -> YearLengths] :
       \E pop \in {WithYears(population, lens)} :
       \E rs \in {AggregateAll(pop, [k \in 1 .. 4 |-> ch_groups[k] \div WorldPerSimulated])} :
          IF FirstFailing(rs) # 0
          THEN /\ err' = rs[FirstFailing(rs)].err
               /\ pc' = "failed"
               /\ population' =
                     [k \in 1 .. Len(population) |->
                        IF \E g \in 1 .. FirstFailing(rs) : Condition(g, population[k])
                        THEN pop[k] ELSE population[k]]
               /\ UNCHANGED group_data
          ELSE /\ group_data' = rs
               /\ population' = pop
               /\ pc' = "aggregated"
               /\ err' = "none"
    /\ UNCHANGED <<ch_groups, global_person_years, global_std_person_years,
                   runVars, distVars, patientVars, samplerVars, trVars>>

NextAggregation ==
    \/ SimulateYear
    \/ CalculateResults
    \/ CalculateGroupData

AggregationSpec == InitAggregation /\ [][NextAggregation]_vars

----------------------------------------------------------------------------
(* transform_intensity and calculate_adjusted_pain_units *)

Methods == {"linear", "power", "power_scaled", "custom_exp", "piecewise_linear", "log"}
\* the names a caller may hand over, two of them unknown
MethodNames == Methods \cup {"Linear", "exp"}

\* the intensities (tenths) the curves are evaluated at: those of
\* np.arange(0, 10.1, 0.1) at which every closed-form transform is rational
Grid == {0, 25, 50, 75, 100}

PowerDraws == 1 .. MaxPower
MaxValueDraws == {-10, 0, 10, 100}
TimeCurves == {[g \in Grid |-> 0], [g \in Grid |-> g + 1]}

RECURSIVE Pow(_, _)
Pow(b, e) == IF e = 0 THEN 1 ELSE b * Pow(b, e - 1)

\* a curve value: the rational num/den, or num/den times exp_func(g; A, B, C)
\* of the fitted parameters when sym is "exp_fit"
\* the rational is kept in lowest terms, so equal values are equal records
RECURSIVE Gcd(_, _)
Gcd(a, b) == IF b = 0 THEN a ELSE Gcd(b, a % b)
Exact(num, den) ==
    [sym |-> "exact", num |-> num \div Gcd(num, den), den |-> den \div Gcd(num, den)]
\* exp_func(g; A, B, C) for the parameters curve_fit returns: the least-squares
\* fit of three parameters to the three points (0, 0), (7.42, max_value/2),
\* (10, max_value) has residual zero, so the curve takes the y of a control
\* point at its x; elsewhere its value is left symbolic
Fitted(g, mv) ==
    IF g = 0 THEN Exact(0, 1)
    ELSE IF g = 100 THEN Exact(mv, 1)
    ELSE [sym |-> "exp_fit", num |-> 1, den |-> 1, at |-> g]

Returns(branch, curve, printed) ==
    [raised |-> "none", branch |-> branch, curve |-> curve, printed |-> printed]
Raises(branch, error) ==
    [raised |-> error, branch |-> branch, curve |-> NoCurve, printed |-> <<>>]

\* if max_value <= 0
MaxValueRejectedStrict(mv) == mv < 0
MaxValueRejected(mv) == mv <= 0

\* intensities * (max_value / 10)
LinearBranchUnscaled(mv) == Returns("linear", [g \in Grid |-> Exact(g, 10)], <<>>)
LinearBranch(mv) == Returns("linear", [g \in Grid |-> Exact(g * mv, 100)], <<>>)

\* except RuntimeError: print(...); return intensities * (max_value / 10)
FitFailureReraised(mv) == Raises("custom_exp", "RuntimeError")
FitFailure(mv) ==
    Returns("custom_exp", [g \in Grid |-> Exact(g * mv, 100)],
            <<"Curve fitting failed. Using fallback linear transformation.">>)

\* else: raise ValueError("Invalid method. ...")
UnknownMethodDefaulted(mv) == Returns("else", [g \in Grid |-> Exact(g * mv, 100)], <<>>)
UnknownMethod(mv) == Raises("else", "ValueError")

\* transform_intensity(intensities, method, power, max_value); fr tells
\* whether curve_fit raises RuntimeError
TransformIntensity(m, p, mv, fr) ==
    IF MaxValueRejected(mv) THEN Raises("none", "ValueError")
    ELSE IF m = "linear" THEN LinearBranch(mv)
    ELSE IF m = "power" THEN
        \* (intensities ** power) * (max_value / (10 ** power))
        Returns("power", [g \in Grid |-> Exact(Pow(g, p) * mv, Pow(100, p))], <<>>)
    ELSE IF m = "power_scaled" THEN
        \* (intensities / 10) ** power * max_value
        Returns("power_scaled", [g \in Grid |-> Exact(Pow(g, p) * mv, Pow(100, p))], <<>>)
    ELSE IF m = "custom_exp" THEN
        IF fr THEN FitFailure(mv)
        ELSE Returns("custom_exp", [g \in Grid |-> Fitted(g, mv)], <<>>)
    ELSE IF m = "piecewise_linear" THEN
        \* breakpoint 8, lower_slope max/16, upper_slope max/4
        Returns("piecewise_linear",
                [g \in Grid |-> IF g <= 80 THEN Exact(g * mv, 160)
                                ELSE Exact((g - 60) * mv, 40)], <<>>)
    ELSE IF m = "log" THEN
        \* (10 ** (intensities / 2.5) - 1) * (max_value / (10 ** (10 / 2.5) - 1))
        Returns("log", [g \in Grid |-> Exact((Pow(10, g \div 25) - 1) * mv,
                                             Pow(10, 4) - 1)], <<>>)
    ELSE UnknownMethod(mv)

\* y * t for y, t in zip(time_amounts, transformed_intensities)
Times(y, t) ==
    [t EXCEPT !.num = (y * t.num) \div Gcd(y * t.num, t.den),
              !.den = t.den \div Gcd(y * t.num, t.den)]

InitTransform ==
    /\ method \in MethodNames
    /\ power \in PowerDraws
    /\ max_value \in MaxValueDraws
    /\ fit_raises \in BOOLEAN
    /\ time_amounts \in TimeCurves
    /\ result = NoCurve
    /\ adjusted = NoCurve
    /\ diagnostics = <<>>
    /\ pc = "transform_ready"
    /\ err = "none"
    /\ is_chronic = FALSE
    /\ is_treated = FALSE
    /\ active_days = 0
    /\ annual_bouts = 0
    /\ bout_durations = <<>>
    /\ attack_pool = <<>>
    /\ pool_index = 0
    /\ attacks = <<>>
    /\ bout = 0
    /\ day = 0
    /\ i = 0
    /\ daily_attacks = 0
    /\ total_attacks = 0
    /\ returned = 0
    /\ years = 0
    /\ regens = 0
    /\ last_read = <<>>
    /\ days_done = 0
    /\ durations = <<>>
    /\ SamplerIdle
    /\ SimIdle

\* a direct call of transform_intensity
CallTransformIntensity ==
    /\ pc = "transform_ready"
    /\ \E r \in {TransformIntensity(method, power, max_value, fit_raises)} :
          /\ result' = r
          /\ err' = r.raised
          /\ diagnostics' = diagnostics \o r.printed
    /\ pc' = "transformed"
    /\ UNCHANGED <<method, power, max_value, fit_raises, time_amounts, adjusted,
                   patientVars, samplerVars, simVars>>

\* calculate_adjusted_pain_units(time_amounts, transformation_method, power,
\* max_value): an error of transform_intensity propagates
CalculateAdjustedPainUnits ==
    /\ pc = "transform_ready"
    /\ \E r \in {TransformIntensity(method, power, max_value, fit_raises)} :
          /\ result' = r
          /\ err' = r.raised
          /\ diagnostics' = diagnostics \o r.printed
          /\ adjusted' = IF r.raised # "none" THEN adjusted
                         ELSE [g \in Grid |-> Times(time_amounts[g], r.curve[g])]
    /\ pc' = "adjusted"
    /\ UNCHANGED <<method, power, max_value, fit_raises, time_amounts,
                   patientVars, samplerVars, simVars>>

NextTransform ==
    \/ CallTransformIntensity
    \/ CalculateAdjustedPainUnits

TransformSpec == InitTransform /\ [][NextTransform]_vars

----------------------------------------------------------------------------
(* Configuration, group sizes and Simulation.run *)

\* Units.  Proportions are whole percents (prop_chronic 0.20 is 20),
\* percent_of_patients_to_simulate is in hundredths of a percent (0.02 is 2),
\* so the simulated fraction percent / 100 is that number over 10000.

\* the configuration object: the two complements are derived from
\* prop_chronic and prop_treated
SimulationConfig(prev, chronic, treated, percent) ==
    [annual_prevalence_per_100k |-> prev, prop_chronic |-> chronic,
     prop_treated |-> treated, prop_episodic |-> 100 - chronic,
     prop_untreated |-> 100 - treated, percent_of_patients_to_simulate |-> percent]

\* world_population = 8_200_000_000, carried in units of 100000 people, the
\* denominator of annual_prevalence_per_100k; adult_fraction = 0.72 in percent
WorldPopulationPer100k == 82000
AdultFractionPercent == 72

\* world_population * adult_fraction * (annual_prevalence_per_100k / 100000)
TotalChSufferersMisplaced(prev) == (WorldPopulationPer100k * AdultFractionPercent * prev) \div 1000
TotalChSufferers(prev) == (WorldPopulationPer100k * AdultFractionPercent * prev) \div 100

\* int(total * a * b) for two proportions in percent: the floor of
\* total * a * b / 10000, computed without leaving 32 bits
GroupSize(total, a, b) ==
    ((total * a) \div 10000) * b + (((total * a) % 10000) * b) \div 10000

\* the dict of the four group sizes, in the order of Groups
ChGroups(total, episodic, untreated, chronic, treated) ==
    <<GroupSize(total, episodic, treated), GroupSize(total, episodic, untreated),
      GroupSize(total, chronic, treated), GroupSize(total, chronic, untreated)>>

\* Simulation.calculate_ch_groups: the dict reads the four proportions off
\* self.config; the locals prop_episodic and prop_untreated, assigned from
\* prop_chronic and prop_treated, are never read
SimChGroupsFromLocals(cfg, total) ==
    ChGroups(total, cfg.prop_chronic, cfg.prop_treated, cfg.prop_chronic, cfg.prop_treated)
SimChGroups(cfg, total) ==
    ChGroups(total, cfg.prop_episodic, cfg.prop_untreated, cfg.prop_chronic,
             cfg.prop_treated)

\* main: prop_episodic = 1 - prop_chronic, prop_untreated = 1 - prop_treated
MainChGroups(total, chronic, treated) ==
    ChGroups(total, 100 - chronic, 100 - treated, chronic, treated)

\* int(count * fraction), fraction = percent_of_patients_to_simulate / 100
NSimulatedAsPercent(count, percent) == (count * percent) \div 100
NSimulated(count, percent) == (count * percent) \div 10000

\* the configurations drawn: the sidebar's defaults and its extremes
PrevalenceDraws == {1, 53}
PropChronicDraws == {0, 20, 50, 100}
PropTreatedDraws == {0, 48, 100}
PercentDraws == {1, 2}
Configs ==
    {SimulationConfig(prev, c, t, f) :
        prev \in PrevalenceDraws, c \in PropChronicDraws, t \in PropTreatedDraws,
        f \in PercentDraws}

\* the configurations of a whole run: few patients, with and without an
\* empty group
RunConfigs == {SimulationConfig(1, c, 48, 1) : c \in {20, 50}}

InitConfigured(cfgs, paths) ==
    /\ config \in cfgs
    /\ path \in paths
    /\ total_ch_sufferers = 0
    /\ n_simulated = <<>>
    /\ runs = 0
    /\ created = <<>>
    /\ total_simulated = 0
    /\ group_info = <<>>
    /\ DistIdle
    /\ ch_groups = <<>>
    /\ population = <<>>
    /\ group_data = <<>>
    /\ global_person_years = <<>>
    /\ global_std_person_years = <<>>
    /\ pc = "configured"
    /\ err = "none"
    /\ is_chronic = FALSE
    /\ is_treated = FALSE
    /\ active_days = 0
    /\ annual_bouts = 0
    /\ bout_durations = <<>>
    /\ attack_pool = <<>>
    /\ pool_index = 0
    /\ attacks = <<>>
    /\ bout = 0
    /\ day = 0
    /\ i = 0
    /\ daily_attacks = 0
    /\ total_attacks = 0
    /\ returned = 0
    /\ years = 0
    /\ regens = 0
    /\ last_read = <<>>
    /\ days_done = 0
    /\ durations = <<>>
    /\ SamplerIdle
    /\ TransformIdle

InitConfig == InitConfigured(Configs, {"Simulation", "main"})
InitRun == InitConfigured(RunConfigs, {"Simulation"})

\* Simulation.calculate_ch_groups
CalculateChGroups ==
    /\ pc = "configured"
    /\ path = "Simulation"
    /\ total_ch_sufferers' = TotalChSufferers(config.annual_prevalence_per_100k)
    /\ ch_groups' = SimChGroups(config, total_ch_sufferers')
    /\ pc' = "groups"
    /\ UNCHANGED <<config, n_simulated, runs, created, path, total_simulated, group_info,
                   population, group_data,
                   global_person_years, global_std_person_years, err,
                   distVars, patientVars, samplerVars, trVars>>

\* the run that creates each patient of a population grown by n
CreatedNow(n) == [j \in 1 .. (n[1] + n[2] + n[3] + n[4]) |-> runs + 1]

\* Simulation.generate_population: n_patients = int(total * fraction) new
\* patients per group, appended to self.population
SimGeneratePopulation ==
    /\ pc = "groups"
    /\ \E n \in {[k \in 1 .. 4 |->
                    NSimulated(ch_groups[k], config.percent_of_patients_to_simulate)]} :
          /\ n_simulated' = n
          /\ population' = population \o GeneratePopulation(n)
          /\ created' = created \o CreatedNow(n)
    /\ pc' = "populated"
    /\ UNCHANGED <<config, total_ch_sufferers, runs, path, total_simulated, group_info,
                   ch_groups, group_data,
                   global_person_years, global_std_person_years, err,
                   distVars, patientVars, samplerVars, trVars>>

\* main, up to the sidebar's summary: the total, the four group sizes, the
\* four simulated counts and their percentages of total_simulated
MainSidebar ==
    /\ pc = "configured"
    /\ path = "main"
    /\ total_ch_sufferers' = TotalChSufferers(config.annual_prevalence_per_100k)
    /\ ch_groups' = MainChGroups(total_ch_sufferers', config.prop_chronic,
                                 config.prop_treated)
    /\ n_simulated' = [k \in 1 .. 4 |->
                         NSimulated(ch_groups'[k], config.percent_of_patients_to_simulate)]
    /\ IF SumSeq(n_simulated') = 0
       THEN err' = "ZeroDivisionError" /\ pc' = "failed"
       ELSE err' = "none" /\ pc' = "sidebar"
    /\ UNCHANGED <<config, runs, created, path, total_simulated, group_info,
                   population, group_data,
                   global_person_years, global_std_person_years,
                   distVars, patientVars, samplerVars, trVars>>

\* the Run Simulation button: generate_population(n_episodic_treated, ...)
\* builds a new list
MainGeneratePopulation ==
    /\ pc = "sidebar"
    /\ population' = GeneratePopulation(n_simulated)
    /\ created' = CreatedNow(n_simulated)
    /\ pc' = "populated"
    /\ UNCHANGED <<config, total_ch_sufferers, n_simulated, runs, path, total_simulated,
                   group_info, ch_groups,
                   group_data, global_person_years, global_std_person_years, err,
                   distVars, patientVars, samplerVars, trVars>>

NextConfig ==
    \/ CalculateChGroups
    \/ SimGeneratePopulation
    \/ MainSidebar
    \/ MainGeneratePopulation

ConfigSpec == InitConfig /\ [][NextConfig]_vars

\* percent_of_patients_to_simulate over its whole range, from 0
InfoPercentDraws == {0, 1, 2}
InfoConfigs ==
    {SimulationConfig(prev, c, t, f) :
        prev \in PrevalenceDraws, c \in PropChronicDraws, t \in PropTreatedDraws,
        f \in InfoPercentDraws}

InitInfo == InitConfigured(InfoConfigs, {"Simulation"})

\* int(sum(self.ch_groups.values()) * fraction)
TotalSimulated(groups, percent) == NSimulated(SumSeq(groups), percent)

\* the (group, simulated_count, percentage) tuples, in the order of Groups
GroupInfo(groups, percent, total) ==
    [k \in 1 .. 4 |->
        <<Groups[k], NSimulated(groups[k], percent),
          RoundHalfEven(NSimulated(groups[k], percent) * 100, total)>>]

\* Simulation.get_simulated_patients_info, called once the groups exist:
\* the first percentage divides by total_simulated
GetSimulatedPatientsInfo ==
    /\ pc \in {"groups", "populated"}
    /\ path = "Simulation"
    /\ \E total \in {TotalSimulated(ch_groups, config.percent_of_patients_to_simulate)} :
          IF total = 0
          THEN /\ err' = "ZeroDivisionError"
               /\ pc' = "failed"
               /\ UNCHANGED <<total_simulated, group_info>>
          ELSE /\ total_simulated' = total
               /\ group_info' =
                     GroupInfo(ch_groups, config.percent_of_patients_to_simulate, total)
               /\ UNCHANGED <<pc, err>>
    /\ UNCHANGED <<config, total_ch_sufferers, n_simulated, runs, created, path,
                   ch_groups, population, group_data, global_person_years,
                   global_std_person_years, distVars, patientVars, samplerVars, trVars>>

NextInfo ==
    \/ CalculateChGroups
    \/ SimGeneratePopulation
    \/ GetSimulatedPatientsInfo

InfoSpec == InitInfo /\ [][NextInfo]_vars

\* Simulation.calculate_adjusted_pain_units, the last step of run: every
\* group's person-years and averages weighted by the transformed intensities
\* (kept as the pairs multiplied, at the points of Grid)
SimCalculateAdjustedPainUnits ==
    /\ pc = "aggregated"
    /\ path = "Simulation"
    /\ \E r \in {TransformIntensity(method, power, max_value, fit_raises)} :
          /\ result' = r
          /\ diagnostics' = diagnostics \o r.printed
          /\ IF r.raised # "none"
             THEN /\ err' = r.raised
                  /\ pc' = "failed"
                  /\ UNCHANGED <<adjusted, runs>>
             ELSE /\ adjusted' = [k \in 1 .. 4 |->
                                    [g \in Grid |-> <<global_person_years[k][g], r.curve[g]>>]]
                  /\ err' = "none"
                  /\ pc' = "run_done"
                  /\ runs' = runs + 1
    /\ UNCHANGED <<config, total_ch_sufferers, n_simulated, created, path, total_simulated,
                   group_info, ch_groups,
                   population, group_data, global_person_years, global_std_person_years,
                   method, power, max_value, fit_raises, time_amounts,
                   distVars, patientVars, samplerVars>>

\* Simulation.run called again on the same object
RunAgain ==
    /\ pc = "run_done"
    /\ runs < MaxRuns
    /\ pc' = "configured"
    /\ UNCHANGED <<simVars, trVars, patientVars, samplerVars, err>>

NextRun ==
    \/ CalculateChGroups
    \/ SimGeneratePopulation
    \/ SimulateYear
    \/ CalculateResults
    \/ SimCalculateAdjustedPainUnits
    \/ RunAgain

RunSpec == InitRun /\ [][NextRun]_vars

----------------------------------------------------------------------------
(* simulate_year over several patients, in any order *)

\* no Patient under construction outside the population
PatientIdle ==
    /\ is_chronic = FALSE
    /\ is_treated = FALSE
    /\ active_days = 0
    /\ annual_bouts = 0
    /\ bout_durations = <<>>
    /\ attack_pool = <<>>
    /\ pool_index = 0
    /\ attacks = <<>>
    /\ bout = 0
    /\ day = 0
    /\ i = 0
    /\ daily_attacks = 0
    /\ total_attacks = 0
    /\ returned = 0
    /\ years = 0
    /\ regens = 0
    /\ last_read = <<>>
    /\ days_done = 0
    /\ durations = <<>>

\* A Patient of the population with the draws it will consume: draws[d] is
\* what generate_attacks_per_day returns on its d-th day, seed places its
\* pools in DrawRows.  started, day and regens are the position of its
\* generate_year_of_attacks call.
PatientWithDraws(chronic, treated, days, draws, seed) ==
    [is_chronic |-> chronic, is_treated |-> treated,
     active_days |-> IF chronic THEN days ELSE 0,
     bout_durations |-> IF chronic THEN <<>> ELSE <<days>>,
     attack_pool |-> PreGenerateAttackPool(chronic, treated,
                        IF chronic THEN days ELSE 0,
                        IF chronic THEN <<>> ELSE <<days>>, seed),
     pool_index |-> 0, attacks |-> <<>>,
     draws |-> draws, seed |-> seed, started |-> FALSE, day |-> 0, regens |-> 0]

OrderDays == {1, 2}
OrderDraws == {1, AttacksPerDayAssumed + 1}
OrderProfiles ==
    UNION {{PatientWithDraws(c, ~c, d, draws, 0) : draws \in [1 .. d -> OrderDraws]} :
              c \in BOOLEAN, d \in OrderDays}

\* the days one generate_year_of_attacks call simulates
DaysOf(p) ==
    IF p.is_chronic THEN Min(365, p.active_days) ELSE SumSeq(p.bout_durations)

\* self.attacks = []; total_attacks = 0
StartYearOn(p) == [p EXCEPT !.attacks = <<>>, !.started = TRUE, !.day = 0]

\* the loop of generate_day_attacks on patient p, n attacks to take
RECURSIVE TakeAttacks(_, _)
TakeAttacks(p, n) ==
    IF n = 0 THEN p
    ELSE LET need == NeedsRefill(p.pool_index, Len(p.attack_pool))
             pool == IF need
                     THEN PreGenerateAttackPool(p.is_chronic, p.is_treated, p.active_days,
                                                p.bout_durations, p.seed + 3 * (p.regens + 1))
                     ELSE p.attack_pool
             idx  == IF need THEN 0 ELSE p.pool_index
         IN  TakeAttacks([p EXCEPT !.attack_pool = pool,
                                   !.pool_index = idx + 1,
                                   !.attacks = Append(@, pool[idx + 1]),
                                   !.regens = IF need THEN @ + 1 ELSE @], n - 1)

\* generate_day_attacks on patient p, then the year loop's next day
GenerateDayAttacksOn(p) == [TakeAttacks(p, p.draws[p.day + 1]) EXCEPT !.day = @ + 1]

\* what a method of patient k writes: attributes of self only
WriteSelfSharedCursor(pop, k, q) ==
    [j \in 1 .. Len(pop) |->
        IF j = k THEN q ELSE [pop[j] EXCEPT !.pool_index = q.pool_index]]
WriteSelf(pop, k, q) == [pop EXCEPT ![k] = q]

InitOrder ==
    /\ population \in [1 .. MaxPatients -> OrderProfiles]
    /\ ch_groups = <<>>
    /\ group_data = <<>>
    /\ global_person_years = <<>>
    /\ global_std_person_years = <<>>
    /\ RunIdle
    /\ DistIdle
    /\ pc = "ordering"
    /\ err = "none"
    /\ PatientIdle
    /\ SamplerIdle
    /\ TransformIdle

\* generate_year_of_attacks entered on some patient not yet simulated
BeginYearOfPatient ==
    /\ pc = "ordering"
    /\ \E k \in 1 .. Len(population) :
          /\ ~population[k].started
          /\ population' = WriteSelf(population, k, StartYearOn(population[k]))
    /\ UNCHANGED <<ch_groups, group_data, global_person_years, global_std_person_years,
                   runVars, distVars, patientVars, samplerVars, trVars, pc, err>>

\* one day of some patient whose year is under way
SimulateDayOfPatient ==
    /\ pc = "ordering"
    /\ \E k \in 1 .. Len(population) :
          /\ population[k].started
          /\ population[k].day < DaysOf(population[k])
          /\ population' = WriteSelf(population, k, GenerateDayAttacksOn(population[k]))
    /\ UNCHANGED <<ch_groups, group_data, global_person_years, global_std_person_years,
                   runVars, distVars, patientVars, samplerVars, trVars, pc, err>>

NextOrder ==
    \/ BeginYearOfPatient
    \/ SimulateDayOfPatient

OrderSpec == InitOrder /\ [][NextOrder]_vars

----------------------------------------------------------------------------
(* The combined bout-frequency distribution *)

\* Units.  Bouts per year in tenths (0.5 is 5), probabilities in thousandths
\* (0.416 is 416).  A value of the combined dictionary is a rational
\* <<numerator, denominator>>.

\* the seven study tables of the module
StudyTables ==
    [Gaul       |-> [n |-> 209, dist |-> (10 :> 600 @@ 20 :> 300 @@ 30 :> 100)],
     Li         |-> [n |-> 327, dist |-> (5 :> 416 @@ 10 :> 370 @@ 25 :> 214)],
     Friedman   |-> [n |-> 50,  dist |-> (5 :> 460 @@ 10 :> 540)],
     Ekbom      |-> [n |-> 105, dist |-> (5 :> 140 @@ 10 :> 400 @@ 20 :> 310 @@ 30 :> 150)],
     Manzoni    |-> [n |-> 161, dist |-> (10 :> 270 @@ 15 :> 730)],
     Sutherland |-> [n |-> 49,  dist |-> (5 :> 512 + 174 @@ 10 :> 140 @@ 20 :> 174)],
     Kudrow     |-> [n |-> 428, dist |-> (5 :> 190 @@ 10 :> 670 @@ 25 :> 140)]]

\* a table whose published percentages do not add up to 1
RoundedTable == [n |-> 10, dist |-> (10 :> 900 @@ 40 :> 50)]

\* the dictionaries the combination is run on: any studies of the module,
\* with or without the rounded table
StudySets ==
    {[name \in names |-> IF name = "Rounded" THEN RoundedTable ELSE StudyTables[name]] :
        names \in (SUBSET (DOMAIN StudyTables \cup {"Rounded"})) \ {{}}}

RECURSIVE SumOver(_, _)
SumOver(f, S) ==
    IF S = {} THEN 0
    ELSE LET x == CHOOSE x \in S : TRUE IN f[x] + SumOver(f, S \ {x})

\* total_n = sum(study['n'] for study in data.values())
TotalN(d) == SumOver([name \in DOMAIN d |-> d[name].n], DOMAIN d)

\* the keys the accumulation loop creates
Support(d) == UNION {DOMAIN d[name].dist : name \in DOMAIN d}

\* combined_dist[bouts] = combined_dist.get(bouts, 0) + prob * weight, with
\* weight = study['n'] / total_n: the sum over the studies that list bouts,
\* over the common denominator 1000 * total_n
Weighted(d) ==
    [b \in Support(d) |->
        [num |-> SumOver([name \in DOMAIN d |->
                             IF b \in DOMAIN d[name].dist
                             THEN d[name].dist[b] * d[name].n ELSE 0], DOMAIN d),
         den |-> 1000 * TotalN(d)]]

\* total_prob = sum(combined_dist.values()), as a numerator over the common
\* denominator
TotalProb(w) == SumOver([b \in DOMAIN w |-> w[b].num], DOMAIN w)

\* {k: v / total_prob for k, v in combined_dist.items()}: the common
\* denominator cancels
NormalizeSkipped(w) == [b \in DOMAIN w |-> <<w[b].num, w[b].den>>]
Normalize(w) == [b \in DOMAIN w |-> <<w[b].num, TotalProb(w)>>]

InitDist ==
    /\ data \in StudySets
    /\ combined_dist = <<>>
    /\ bouts_per_year = <<>>
    /\ ch_groups = <<>>
    /\ population = <<>>
    /\ group_data = <<>>
    /\ global_person_years = <<>>
    /\ global_std_person_years = <<>>
    /\ RunIdle
    /\ pc = "studies"
    /\ err = "none"
    /\ PatientIdle
    /\ SamplerIdle
    /\ TransformIdle

\* the two loops of the module: accumulate, then normalize
CombineDistributions ==
    /\ pc = "studies"
    /\ \E w \in {Weighted(data)} :
          IF TotalN(data) = 0 \/ TotalProb(w) = 0
          THEN /\ err' = "ZeroDivisionError"
               /\ pc' = "failed"
               /\ UNCHANGED combined_dist
          ELSE /\ combined_dist' = Normalize(w)
               /\ pc' = "combined"
               /\ UNCHANGED err
    /\ UNCHANGED <<data, bouts_per_year, ch_groups, population, group_data,
                   global_person_years, global_std_person_years, runVars,
                   patientVars, samplerVars, trVars>>

\* rv_discrete(values=(keys, values)): the support and its probabilities
CreateBoutsPerYear ==
    /\ pc = "combined"
    /\ bouts_per_year' = [xk |-> DOMAIN combined_dist, pk |-> combined_dist]
    /\ pc' = "distribution"
    /\ UNCHANGED <<data, combined_dist, ch_groups, population, group_data,
                   global_person_years, global_std_person_years, runVars,
                   patientVars, samplerVars, trVars, err>>

NextDist ==
    \/ CombineDistributions
    \/ CreateBoutsPerYear

DistSpec == InitDist /\ [][NextDist]_vars

----------------------------------------------------------------------------
(* generate_chronic_active_days called on its own *)

\* lognormal draws, in tenths of a day: around 0, the median 200 and the cap
LognormalDays == {0, 1, 2, 10, 199, 200, 250, 364, 365, 366, 400, 1000}
LognormalDraws == {10 * k + f : k \in LognormalDays, f \in {0, 4, 5, 6, 9}}

\* draw holds what lognorm.rvs returns
InitProfile ==
    /\ draw \in LognormalDraws
    /\ max_daily_ch = Inf
    /\ rejected = 0
    /\ attacks_today = 0
    /\ pc = "profile"
    /\ err = "none"
    /\ PatientIdle
    /\ SimIdle
    /\ TransformIdle

\* Patient.generate_profile of a chronic patient
GenerateProfileChronic ==
    /\ pc = "profile"
    /\ is_chronic' = TRUE
    /\ active_days' = GenerateChronicActiveDays(draw)
    /\ pc' = "profiled"
    /\ UNCHANGED <<is_treated, annual_bouts, bout_durations, durations, attack_pool, pool_index,
                   attacks, bout, day, i, daily_attacks, total_attacks, returned,
                   years, regens, last_read, days_done, err, samplerVars,
                   simVars, trVars>>

\* the support of bouts_per_year, in tenths of a bout
AnnualBoutsDraws == {5, 10, 15, 20, 25, 30}
\* lognormal bout durations, in hundredths of a week
ProfileWeekDraws == {3, 30, 850, 6000}

\* Patient.generate_profile of an episodic patient: annual_bouts drawn, then
\* generate_bout_durations; durations holds the array lognorm.rvs returned
GenerateProfileEpisodic ==
    /\ pc = "profile"
    /\ \E ab \in AnnualBoutsDraws :
       \E durs \in [1 .. CeilTenths(ab) -> ProfileWeekDraws] :
          /\ annual_bouts' = ab
          /\ durations' = durs
          /\ bout_durations' = GenerateBoutDurations(ab, durs)
    /\ is_chronic' = FALSE
    /\ pc' = "profiled"
    /\ UNCHANGED <<is_treated, active_days, attack_pool, pool_index,
                   attacks, bout, day, i, daily_attacks, total_attacks, returned,
                   years, regens, last_read, days_done, err, samplerVars,
                   simVars, trVars>>

NextProfile ==
    \/ GenerateProfileChronic
    \/ GenerateProfileEpisodic

ProfileSpec == InitProfile /\ [][NextProfile]_vars

----------------------------------------------------------------------------
(* Claims about aggregation and the transforms *)

\* C3: with an empty group, aggregation completes without raising and that
\* group's average, std and total curves are zero in all 101 buckets.
HasEmptyGroup == \E k \in 1 .. 4 : Len(GroupPatients(population, k)) = 0

C3_EmptyGroupAllZero ==
    (HasEmptyGroup /\ pc \in {"aggregated", "failed"}) =>
        /\ err = "none"
        /\ pc = "aggregated"
        /\ \A k \in 1 .. 4 :
              Len(GroupPatients(population, k)) = 0 =>
                 \A b \in Buckets :
                    /\ group_data[k].average[b][1] = 0
                    /\ group_data[k].std_sq[b][1] = 0
                    /\ group_data[k].total[b] = 0

TransformDone == pc \in {"transformed", "adjusted"}

\* C8: an unknown method name with a positive max_value raises ValueError
\* and returns no curve; only the six supported names produce a curve.
C8_UnknownMethodRaises ==
    (TransformDone /\ max_value > 0) =>
        /\ method \notin Methods =>
              /\ err = "ValueError"
              /\ result.curve = NoCurve
              /\ adjusted = NoCurve
        /\ result.curve # NoCurve => (method \in Methods /\ result.branch = method)

\* an unknown name met the final else
C8_Witness ==
    /\ pc = "transformed"
    /\ method = "Linear"
    /\ max_value > 0
    /\ err = "ValueError"
    /\ result.branch = "else"

\* C9: max_value <= 0 raises ValueError before any method branch is entered,
\* whatever the method name, and calculate_adjusted_pain_units then produces
\* no adjusted curve.
C9_NonPositiveMaxValueRaises ==
    (TransformDone /\ max_value <= 0) =>
        /\ err = "ValueError"
        /\ result.branch = "none"
        /\ result.curve = NoCurve
        /\ diagnostics = <<>>
        /\ adjusted = NoCurve

\* max_value = 0 with a supported method whose fit would have failed, called
\* through calculate_adjusted_pain_units
C9_Witness ==
    /\ pc = "adjusted"
    /\ max_value = 0
    /\ method = "custom_exp"
    /\ fit_raises
    /\ err = "ValueError"
    /\ adjusted = NoCurve

\* C10: when the custom_exp fit fails, nothing is raised: one diagnostic is
\* printed, the curve returned is the one the linear method returns for the
\* same inputs, and the caller goes on to its adjusted curve.
C10_FitFailureFallsBackToLinear ==
    (TransformDone /\ method = "custom_exp" /\ max_value > 0 /\ fit_raises) =>
        /\ err = "none"
        /\ Len(diagnostics) = 1
        /\ result.curve = TransformIntensity("linear", power, max_value, fit_raises).curve
        /\ pc = "adjusted" =>
              adjusted = [g \in Grid |-> Times(time_amounts[g], Exact(g * max_value, 100))]

\* a failed fit inside calculate_adjusted_pain_units, with a curve produced
C10_Witness ==
    /\ pc = "adjusted"
    /\ method = "custom_exp"
    /\ fit_raises
    /\ max_value = 100
    /\ err = "none"
    /\ adjusted # NoCurve
    /\ adjusted[100].num = 101 * 100
    /\ adjusted[100].den = 1

----------------------------------------------------------------------------
(* Claims about the configuration and the group sizes *)

\* the end-to-end configuration: prevalence 53 per 100k, 20% chronic, 48%
\* treated, 0.02% of the patients simulated
EndToEnd == SimulationConfig(53, 20, 48, 2)
GroupsComputed == pc \in {"groups", "sidebar", "populated"}

\* C12 as stated: with the end-to-end prevalence the worldwide sufferer
\* count, truncated to an integer, is within 1 of 3,133,440.
C12_TotalNear3133440 ==
    (GroupsComputed /\ config.annual_prevalence_per_100k = 53) =>
        Abs(total_ch_sufferers - 3133440) <= 1

\* C12 amended: with the end-to-end prevalence the worldwide sufferer count,
\* truncated to an integer, is within 1 of 3,129,120.
C12_TotalNear3129120 ==
    (GroupsComputed /\ config.annual_prevalence_per_100k = 53) =>
        Abs(total_ch_sufferers - 3129120) <= 1

\* the total computed by Simulation.calculate_ch_groups for prevalence 53
C12_Witness ==
    /\ pc = "groups"
    /\ path = "Simulation"
    /\ config.annual_prevalence_per_100k = 53
    /\ total_ch_sufferers = 3129120

\* C13: with the end-to-end configuration the number of Episodic Treated
\* patients instantiated is the twice-truncated count and lies in 240 +/- 5.
C13_EpisodicTreatedNear240 ==
    (pc = "populated" /\ config = EndToEnd) =>
        /\ Len(GroupPatients(population, 1)) = n_simulated[1]
        /\ n_simulated[1] = (ch_groups[1] * 2) \div 10000
        /\ Abs(Len(GroupPatients(population, 1)) - 240) <= 5

\* the end-to-end population built by Simulation.generate_population
C13_Witness ==
    /\ pc = "populated"
    /\ path = "Simulation"
    /\ config = EndToEnd
    /\ Len(population) = 625
    /\ Len(GroupPatients(population, 1)) = 240

\* C14: in both paths the four group sizes are the ones of the complement
\* relationship prop_episodic = 1 - prop_chronic, prop_untreated =
\* 1 - prop_treated, so they are the same for the same proportions and total.
C14_ComplementInBothPaths ==
    GroupsComputed =>
        /\ total_ch_sufferers = TotalChSufferers(config.annual_prevalence_per_100k)
        /\ ch_groups = <<GroupSize(total_ch_sufferers, 100 - config.prop_chronic,
                                   config.prop_treated),
                         GroupSize(total_ch_sufferers, 100 - config.prop_chronic,
                                   100 - config.prop_treated),
                         GroupSize(total_ch_sufferers, config.prop_chronic,
                                   config.prop_treated),
                         GroupSize(total_ch_sufferers, config.prop_chronic,
                                   100 - config.prop_treated)>>

\* Simulation.calculate_ch_groups on proportions whose complements differ
\* from them
C14_Witness ==
    /\ pc = "groups"
    /\ path = "Simulation"
    /\ config.prop_chronic = 20
    /\ config.prop_treated = 48
    /\ ch_groups[1] > ch_groups[3]
    /\ ch_groups[2] > ch_groups[1]

\* C15: after every completed Simulation.run the population holds only
\* patients created during that run, as many as the four simulated counts
\* of that run add up to.
C15_PopulationFreshEachRun ==
    pc = "run_done" =>
        /\ \A j \in 1 .. Len(created) : created[j] = runs
        /\ Len(population) = SumSeq(n_simulated)

----------------------------------------------------------------------------
(* Claims about the order of the per-patient simulations *)

\* patient p as constructed, and its year simulated on its own, day by day
AsConstructed(p) ==
    PatientWithDraws(p.is_chronic, p.is_treated, DaysOf(p), p.draws, p.seed)
RECURSIVE DaysFrom(_, _)
DaysFrom(p, upto) == IF p.day >= upto THEN p ELSE DaysFrom(GenerateDayAttacksOn(p), upto)
AloneUpTo(p, upto) == DaysFrom(StartYearOn(AsConstructed(p)), upto)
AllSimulated ==
    \A k \in 1 .. Len(population) :
        population[k].started /\ population[k].day = DaysOf(population[k])
SimulatedAlone == [k \in 1 .. Len(population) |-> AloneUpTo(population[k], DaysOf(population[k]))]

\* C16: a step of one patient's generate_year_of_attacks leaves every other
\* patient unchanged; whatever the order of the steps, every patient's
\* attacks, pool and cursor are those of its own simulation with its own
\* draws, and so are the per-group intensity minutes.
C16_OrderIndependent ==
    /\ [][pc = "ordering" =>
            \E k \in 1 .. Len(population) :
                \A j \in (1 .. Len(population)) \ {k} : population'[j] = population[j]]_vars
    /\ [](pc = "ordering" =>
            /\ \A k \in 1 .. Len(population) :
                  population[k].started =>
                      population[k] = AloneUpTo(population[k], population[k].day)
            /\ AllSimulated =>
                  \A g \in 1 .. 4 :
                      IntensityMinutes(GroupPatients(population, g))
                          = IntensityMinutes(GroupPatients(SimulatedAlone, g)))

\* two patients, both simulated to the end, the second one's pool refilled
\* while the first had a day left
C16_Witness ==
    /\ pc = "ordering"
    /\ AllSimulated
    /\ population[1].day = 2
    /\ population[2].regens >= 1
    /\ Len(population[1].attacks) > Len(population[2].attacks)

----------------------------------------------------------------------------
(* Claims about the bout-frequency distribution *)

\* C17: the probabilities of the combined distribution add up to 1, and its
\* support is the union of the supports of the study tables combined.
C17_CombinedDistNormalized ==
    pc \in {"combined", "distribution"} =>
        /\ DOMAIN combined_dist = UNION {DOMAIN data[name].dist : name \in DOMAIN data}
        /\ \A b \in DOMAIN combined_dist :
              /\ combined_dist[b][2] > 0
              /\ combined_dist[b][2]
                    = SumOver([c \in DOMAIN combined_dist |-> combined_dist[c][1]],
                              DOMAIN combined_dist)

\* the seven tables together with one whose mass is not 1
C17_Witness ==
    /\ pc = "combined"
    /\ DOMAIN data = DOMAIN StudyTables \cup {"Rounded"}
    /\ DOMAIN combined_dist = {5, 10, 15, 20, 25, 30, 40}
    /\ combined_dist[40][1] = 500

----------------------------------------------------------------------------
(* Claims about one patient's year, pool and profile *)

\* C18: a returned generate_year_of_attacks call has simulated min(365,
\* active_days) days of a chronic patient and sum(bout_durations) days of an
\* episodic one, and its return value is the length of the attacks list,
\* which holds the attacks of this call only.
C18_YearDaysAndTotal ==
    (pc = "idle" /\ years >= 1) =>
        /\ days_done = IF is_chronic THEN Min(365, active_days) ELSE SumSeq(bout_durations)
        /\ returned = Len(attacks)
        /\ returned = total_attacks

\* the second year of an episodic patient with two bouts
C18_Witness ==
    /\ pc = "idle"
    /\ years = 2
    /\ ~is_chronic
    /\ Len(bout_durations) = 2
    /\ days_done = SumSeq(bout_durations)
    /\ days_done >= 2
    /\ returned = Len(attacks)
    /\ returned > days_done

\* C19: the pool is replaced only when an attack is needed and the cursor
\* is at the pool's length; the new pool has the length of the initial one
\* (8 * active_days or 8 * sum(bout_durations)) and is read from position 0;
\* between replacements the cursor moves one position per recorded attack,
\* so no entry is recorded twice.
C19_Replenishment ==
    /\ [](/\ Len(attack_pool) = AttacksPerDayAssumed *
                (IF is_chronic THEN active_days ELSE SumSeq(bout_durations))
          /\ pool_index <= Len(attack_pool))
    /\ [][(regens' = regens + 1) =>
             /\ pc = "day_loop" /\ i < attacks_today
             /\ pool_index = Len(attack_pool)
             /\ Len(attack_pool') = Len(attack_pool)
             /\ last_read' = <<0, Len(attack_pool)>>
             /\ pool_index' = 1
             /\ attacks' = Append(attacks, attack_pool'[1])]_vars
    /\ [][(Len(attacks') > Len(attacks) /\ regens' = regens) =>
             /\ attack_pool' = attack_pool
             /\ pool_index < Len(attack_pool)
             /\ pool_index' = pool_index + 1
             /\ attacks' = Append(attacks, attack_pool[pool_index + 1])]_vars

\* a pool replaced in the middle of a day, its first entry just recorded
C19_Witness ==
    /\ pc = "day_loop"
    /\ regens = 1
    /\ i >= 1
    /\ last_read = <<0, Len(attack_pool)>>
    /\ pool_index = 1
    /\ Len(attack_pool) = AttacksPerDayAssumed
    /\ Len(attacks) = Len(attack_pool) + 1

\* C20 as stated: a chronic patient's active_days is the draw rounded to
\* the nearest integer, capped at 365, and lies in 0 .. 365.
C20_ActiveDaysRounded ==
    (pc = "profiled" /\ is_chronic) =>
        /\ active_days = Min(365, RoundHalfEven(draw, 10))
        /\ active_days \in 0 .. 365

\* C20 amended: a chronic patient's active_days is the draw truncated to its
\* integer part, capped at 365 (a draw of 199.6 gives 199), and lies in
\* 0 .. 365.
C20_ActiveDaysTruncated ==
    (pc = "profiled" /\ is_chronic) =>
        /\ active_days \in 0 .. 365
        /\ draw >= 3650 => active_days = 365
        /\ draw < 3650 => (10 * active_days <= draw /\ draw < 10 * active_days + 10)

\* the draw 199.6
C20_Witness ==
    /\ pc = "profiled"
    /\ is_chronic
    /\ draw = 1996
    /\ active_days = 199

\* C21: an episodic patient's bout_durations has ceil(annual_bouts) entries,
\* each a whole number of days >= 1: the sampled duration in days, truncated,
\* where only the last one is first scaled by the fractional part of
\* annual_bouts, and only when annual_bouts is not an integer.
C21_BoutDurations ==
    (pc = "profiled" /\ ~is_chronic) =>
        /\ 10 * (Len(bout_durations) - 1) < annual_bouts
        /\ annual_bouts <= 10 * Len(bout_durations)
        /\ Len(durations) = Len(bout_durations)
        /\ \A k \in 1 .. Len(bout_durations) :
              LET scaled == k = Len(bout_durations) /\ annual_bouts % 10 # 0
                  \* the duration in thousandths of a day
                  days1000 == IF scaled THEN 7 * durations[k] * (annual_bouts % 10)
                              ELSE 7 * durations[k] * 10
              IN  /\ bout_durations[k] >= 1
                  /\ days1000 >= 1000 =>
                        /\ 1000 * bout_durations[k] <= days1000
                        /\ days1000 < 1000 * (bout_durations[k] + 1)
                  /\ days1000 < 1000 => bout_durations[k] = 1

\* 2.5 bouts a year: two bouts of 8.5 weeks and a last one of half that
C21_Witness ==
    /\ pc = "profiled"
    /\ ~is_chronic
    /\ annual_bouts = 25
    /\ durations = <<850, 850, 850>>
    /\ bout_durations = <<59, 59, 29>>

----------------------------------------------------------------------------
(* Claims about the curves of a group *)

\* all realized attacks of the patients ps, and the minutes at peak of a
\* list of attacks
AttacksOf(ps) == Concat([k \in 1 .. Len(ps) |-> ps[k].attacks])
PeakMinutes(as) == SumSeq([k \in 1 .. Len(as) |-> as[k].max_intensity_duration])
Aggregated == pc = "aggregated"

\* C22: in every aggregated group and at every bucket the total curve is the
\* sum of the patients' intensity minutes at that bucket, the average is the
\* total over the group's patient count, and the total curve summed over the
\* buckets is the sum of max_intensity_duration over the group's attacks.
C22_TotalsAndAverages ==
    Aggregated =>
        \A g \in 1 .. 4 :
            LET ps == GroupPatients(population, g)
                r  == group_data[g]
            IN  /\ Len(ps) > 0
                /\ r.n_patients = Len(ps)
                /\ \A b \in Buckets :
                      /\ r.total[b] =
                            SumSeq([k \in 1 .. Len(ps) |-> MinutesAt(ps[k].attacks, b)])
                      /\ r.average[b] = <<r.total[b], Len(ps)>>
                /\ SumOver(r.total, Buckets) = PeakMinutes(AttacksOf(ps))

\* four groups of two patients, with attacks that share a bucket
C22_Witness ==
    /\ Aggregated
    /\ \A g \in 1 .. 4 : Len(GroupPatients(population, g)) = 2
    /\ \E b \in Buckets : group_data[1].total[b] > 0 /\ group_data[1].average[b][2] = 2
    /\ \E k \in 1 .. Len(population) : Len(population[k].attacks) = 7
    /\ PeakMinutes(AttacksOf(GroupPatients(population, 1))) > 0

\* ---------------------------------------------------------------------------
\* The std curve

\* the minutes of every patient of the group at bucket b, 0 for a patient
\* without an attack there
MinutesPerPatient(ps, b) ==
    [k \in 1 .. Len(ps) |-> MinutesAt(ps[k].attacks, b)]

SameRational(x, y) == x[1] * y[2] = y[1] * x[2]

\* C23: in every aggregated group and at every bucket the std curve is the
\* population standard deviation of the per-patient minutes at that bucket,
\* one value per patient of the group, and 0 at a bucket where no patient has
\* an attack.
C23_StdAcrossPatients ==
    Aggregated =>
        \A g \in 1 .. 4 :
            LET ps == GroupPatients(population, g)
                r  == group_data[g]
            IN  \A b \in Buckets :
                    /\ SameRational(r.std_sq[b], StdSquared(MinutesPerPatient(ps, b)))
                    /\ (\A k \in 1 .. Len(ps) : MinutesAt(ps[k].attacks, b) = 0)
                          => r.std_sq[b][1] = 0

\* ---------------------------------------------------------------------------
\* Bucket keys

\* the buckets for intensities below 1.0
BelowOne == {b \in Buckets : b < 10}

\* C24: the rounded max_intensity of every realized attack of every patient
\* is one of the 101 bucket keys, so no aggregation raises KeyError, and in
\* every aggregated group the average, std and total curves are 0 at every
\* bucket below 1.0.
C24_IntensitiesAreBucketKeys ==
    /\ \A k \in 1 .. Len(population) :
          \A j \in 1 .. Len(population[k].attacks) :
              population[k].attacks[j].max_intensity \in Buckets
    /\ err # "KeyError"
    /\ Aggregated =>
          \A g \in 1 .. 4 : \A b \in BelowOne :
              /\ group_data[g].total[b] = 0
              /\ group_data[g].average[b][1] = 0
              /\ group_data[g].std_sq[b][1] = 0

\* an aggregated population with attacks clipped to both ends of the scale
C24_Witness ==
    /\ Aggregated
    /\ \E k \in 1 .. Len(population) :
          /\ \E j \in 1 .. Len(population[k].attacks) :
                population[k].attacks[j].max_intensity = 10
          /\ \E j \in 1 .. Len(population[k].attacks) :
                population[k].attacks[j].max_intensity = 100
    /\ \E g \in 1 .. 4 : group_data[g].total[10] > 0 /\ group_data[g].total[100] > 0

\* ---------------------------------------------------------------------------
\* Days of a simulated year

\* the days one generate_year_of_attacks call simulates for the profile
\* generate_profile left: range(min(365, active_days)) for a chronic patient,
\* range(duration) for every bout of an episodic one
DaysPerYear ==
    IF is_chronic THEN Min(365, active_days) ELSE SumSeq(bout_durations)

\* C25: for every generated profile, chronic or episodic, one
\* generate_year_of_attacks call simulates at most 365 days; for an episodic
\* patient sum(bout_durations) <= 365.
C25_AtMost365Days ==
    pc = "profiled" =>
        /\ DaysPerYear <= 365
        /\ ~is_chronic => SumSeq(bout_durations) <= 365

\* ---------------------------------------------------------------------------
\* The simulated-patients summary

\* get_simulated_patients_info has returned and generate_population has run
InfoAndPopulation == pc = "populated" /\ group_info # <<>>

\* C26: the total_simulated get_simulated_patients_info returns is the sum of
\* the simulated counts it reports per group and the number of patients
\* generate_population creates, and the call does not fail when that total
\* is 0.
C26_TotalSimulatedConsistent ==
    /\ err # "ZeroDivisionError"
    /\ group_info # <<>> =>
          total_simulated = SumSeq([k \in 1 .. 4 |-> group_info[k][2]])
    /\ InfoAndPopulation => total_simulated = Len(population)

====
